---- MODULE Spec2Model ----
(***************************************************************************)
(* apfsck: the id-keyed hash tables (htable.c) and the inode record        *)
(* parser with its deferred checks (inode.c), as a state machine.          *)
(*                                                                         *)
(* Entities live in two heaps (one per table); an address is an index into *)
(* the heap sequence and NULL is 0.  report() never returns: the first     *)
(* report of a handler ends the run (pc = "abort", fatal = the message).   *)
(***************************************************************************)
EXTENDS Integers, Sequences, FiniteSets, TLC

\* ------------------------------------------------------------------ bounds
NBuckets == 3        \* bucket count of both tables in the model
MaxId == 6           \* ids requested from the cnid table are 0..MaxId
MaxChain == 2        \* inos of one bucket requested from the inode table, less one
MaxEntries == 3      \* entities one table holds in the table specification
MaxInodes == 2       \* inode entities in the inode specification
MaxCount == 1        \* walker-observed link / child counts are 0..MaxCount
MaxIno == 18         \* check_inode_ids is run on 0..MaxIno x 0..MaxIno
MaxXf == 2           \* descriptors in a generated xfield blob
MaxWords == 6        \* generated payloads are up to 8 * MaxWords bytes long
MaxNonZero == 2      \* non-zero bytes in a generated payload
MaxOob == 1          \* non-zero bytes strnlen may meet past the record's end

\* ------------------------------------------------- constants of the headers
HTABLE_BUCKETS == NBuckets
INODE_TABLE_BUCKETS == NBuckets

APFS_INVALID_INO_NUM == 0
APFS_ROOT_DIR_PARENT == 1
APFS_ROOT_DIR_INO_NUM == 2
APFS_PRIV_DIR_INO_NUM == 3
APFS_SNAP_DIR_INO_NUM == 6
APFS_MIN_USER_INO_NUM == 16

S_IFIFO == 4096
S_IFCHR == 8192
S_IFDIR == 16384
S_IFBLK == 24576
S_IFREG == 32768
S_IFLNK == 40960
S_IFSOCK == 49152

APFS_INO_EXT_TYPE_SNAP_XID == 1
APFS_INO_EXT_TYPE_DELTA_TREE_OID == 2
APFS_INO_EXT_TYPE_DOCUMENT_ID == 3
APFS_INO_EXT_TYPE_NAME == 4
APFS_INO_EXT_TYPE_PREV_FSIZE == 5
APFS_INO_EXT_TYPE_RESERVED_6 == 6
APFS_INO_EXT_TYPE_FINDER_INFO == 7
APFS_INO_EXT_TYPE_DSTREAM == 8
APFS_INO_EXT_TYPE_RESERVED_9 == 9
APFS_INO_EXT_TYPE_DIR_STATS_KEY == 10
APFS_INO_EXT_TYPE_FS_UUID == 11
APFS_INO_EXT_TYPE_RESERVED_12 == 12
APFS_INO_EXT_TYPE_SPARSE_BYTES == 13
APFS_INO_EXT_TYPE_RDEV == 14

SizeofInodeVal == 92      \* sizeof(struct apfs_inode_val)
SizeofXfBlob == 4         \* sizeof(struct apfs_xf_blob)
SizeofXField == 4         \* sizeof(struct apfs_x_field)
SizeofDstream == 40       \* sizeof(struct apfs_dstream)
SizeofDirStatsVal == 32   \* sizeof(struct apfs_dir_stats_val)

NULL == 0
NoError == "ok"

\* A u64 is kept as its eight bytes, least significant first (a 64-bit value
\* is beyond the integers TLC computes with); u64_lt is < on the values.
u64_zero == [k \in 1 .. 8 |-> 0]

u64_lt(a, b) ==
  \E k \in 1 .. 8 : a[k] < b[k] /\ \A j \in k + 1 .. 8 : a[j] = b[j]

VARIABLES
  cnids,          \* heap of the cnid table's entities
  cnid_table,     \* vsb->v_cnid_table: bucket index -> address
  cnid_state,     \* "live" | "freed"
  cnid_visited,   \* bucket indexes free_htable has read
  inodes,         \* heap of the inode table's entities
  inode_table,    \* vsb->v_inode_table: bucket index -> address
  inode_state,    \* "live" | "freed"
  inode_visited,  \* bucket indexes free_inode_table has read
  dstreams,       \* the dstream table: private id -> d_size
  dstream_live,   \* vsb->v_dstream_table is set
  counts,         \* vsb->v_file_count, v_dir_count, v_symlink_count, v_special_count
  pc,             \* "run" | "abort"
  fatal,          \* the message of the report that ended the run, or NoError
  call,           \* the last operation: its name, id, what it returned
  first_cnid,     \* id -> the address the first get_listed_cnid(id) returned
  first_ino,      \* ino -> the address the first get_inode(ino) returned
  recs,           \* ino -> the inode records parse_inode_record was handed for it
  xin,            \* the input of the pure-function specifications
  xout            \* and what the function made of it

vars == <<cnids, cnid_table, cnid_state, cnid_visited, inodes, inode_table,
          inode_state, inode_visited, dstreams, dstream_live, counts, pc,
          fatal, call, first_cnid, first_ino, recs, xin, xout>>

tablevars == <<cnids, cnid_table, cnid_state, cnid_visited, first_cnid>>
inodevars == <<inodes, inode_table, inode_state, inode_visited, first_ino, recs,
               counts>>
dsvars == <<dstreams, dstream_live>>
purevars == <<xin, xout>>

\* ---------------------------------------------------------------- htable.c

\* alloc_htable: calloc(HTABLE_BUCKETS, sizeof(*table)), every bucket NULL.
alloc_htable == [i \in 0 .. HTABLE_BUCKETS - 1 |-> NULL]

\* calloc(1, sizeof(struct listed_cnid)): a zeroed entity. n_fin and n_free
\* count the finalizer calls and the releases of the entity.
zero_listed_cnid == [h_id |-> 0, h_next |-> NULL, n_fin |-> 0, n_free |-> 0]

\* table[i]; past the end of the array it is whatever memory holds there.
bucket_read(table, i, junk) == IF i \in DOMAIN table THEN table[i] ELSE junk

\* The loop of get_htable_entry: stops at the entry with the id, or at the
\* place (entry_p) where an entry with the id belongs.
RECURSIVE htable_walk_unsorted(_, _, _, _)
htable_walk_unsorted(heap, entry_p, entry, id) ==
  IF entry = NULL
  THEN [found |-> FALSE, entry_p |-> entry_p, entry |-> entry]
  ELSE IF id = heap[entry].h_id
  THEN [found |-> TRUE, entry_p |-> entry_p, entry |-> entry]
  ELSE htable_walk_unsorted(heap, [kind |-> "next", at |-> entry],
                            heap[entry].h_next, id)

RECURSIVE htable_walk(_, _, _, _)
htable_walk(heap, entry_p, entry, id) ==
  IF entry = NULL
  THEN [found |-> FALSE, entry_p |-> entry_p, entry |-> entry]
  ELSE IF id = heap[entry].h_id
  THEN [found |-> TRUE, entry_p |-> entry_p, entry |-> entry]
  ELSE IF id < heap[entry].h_id
  THEN [found |-> FALSE, entry_p |-> entry_p, entry |-> entry]
  ELSE htable_walk(heap, [kind |-> "next", at |-> entry],
                   heap[entry].h_next, id)

\* The end of get_htable_entry, w being where its loop stopped: return the
\* entry found, or calloc one, stamp its id and splice it in at *entry_p.
htable_insert(w, id, zero, heap, table) ==
  IF w.found
  THEN [heap |-> heap, table |-> table, ret |-> w.entry, created |-> 0]
  ELSE [heap |-> IF w.entry_p.kind = "next"
                 THEN [Append(heap, [zero EXCEPT !.h_id = id, !.h_next = w.entry])
                         EXCEPT ![w.entry_p.at].h_next = Len(heap) + 1]
                 ELSE Append(heap, [zero EXCEPT !.h_id = id, !.h_next = w.entry]),
        table |-> IF w.entry_p.kind = "bucket"
                  THEN [table EXCEPT ![w.entry_p.at] = Len(heap) + 1]
                  ELSE table,
        ret |-> Len(heap) + 1, created |-> 1]

\* get_htable_entry(id, size, table); zero is the calloc'ed entity of that size.
get_htable_entry(id, zero, heap, table) ==
  htable_insert(htable_walk(heap,
                            [kind |-> "bucket", at |-> id % INODE_TABLE_BUCKETS],
                            table[id % INODE_TABLE_BUCKETS], id),
                id, zero, heap, table)

\* free(): the finalizer free_cnid_table hands to free_htable.
free_entry(heap, current) ==
  [heap EXCEPT ![current].n_fin = @ + 1, ![current].n_free = @ + 1]

\* The inner loop of free_htable: next is read before the entry is freed.
RECURSIVE free_chain(_, _)
free_chain(heap, current) ==
  IF current = NULL THEN heap
  ELSE LET next == heap[current].h_next
       IN free_chain(free_entry(heap, current), next)

RECURSIVE free_buckets_from(_, _, _, _, _)
free_buckets_from(heap, table, i, visited, junk) ==
  IF i >= INODE_TABLE_BUCKETS THEN [heap |-> heap, visited |-> visited]
  ELSE free_buckets_from(free_chain(heap, bucket_read(table, i, junk)),
                         table, i + 1, visited \cup {i}, junk)

free_htable_skip_first(heap, table, junk) ==
  free_buckets_from(heap, table, 1, {}, junk)

\* free_htable(table, free): every bucket from 0 to INODE_TABLE_BUCKETS - 1.
free_htable(heap, table, junk) == free_buckets_from(heap, table, 0, {}, junk)

\* ----------------------------------------------------------------- inode.c

\* calloc(1, sizeof(struct inode)): a zeroed inode. i_nchildren and i_nlink
\* are one field (an anonymous union in struct inode).
zero_inode ==
  [i_ino |-> 0, i_next |-> NULL, i_seen |-> FALSE, i_private_id |-> 0,
   i_mode |-> 0, i_nlink |-> 0, i_size |-> u64_zero, i_child_count |-> 0,
   i_link_count |-> 0, n_fin |-> 0, n_free |-> 0]

i_nchildren(inode) == inode.i_nlink

\* alloc_inode_table: calloc(INODE_TABLE_BUCKETS, sizeof(*table)).
alloc_inode_table == [i \in 0 .. INODE_TABLE_BUCKETS - 1 |-> NULL]

\* mode & S_IFMT, S_IFMT being the top four bits of the 16-bit mode.
filetype_of(mode) == (mode \div 4096) * 4096

\* The loop of get_inode.
RECURSIVE inode_walk(_, _, _, _)
inode_walk(heap, entry_p, entry, ino) ==
  IF entry = NULL
  THEN [found |-> FALSE, entry_p |-> entry_p, entry |-> entry]
  ELSE IF ino = heap[entry].i_ino
  THEN [found |-> TRUE, entry_p |-> entry_p, entry |-> entry]
  ELSE IF ino < heap[entry].i_ino
  THEN [found |-> FALSE, entry_p |-> entry_p, entry |-> entry]
  ELSE inode_walk(heap, [kind |-> "next", at |-> entry],
                  heap[entry].i_next, ino)

\* The entity get_inode creates: calloc, then i_seen, i_ino and i_next.
new_inode(ino, next) ==
  [zero_inode EXCEPT !.i_seen = FALSE, !.i_ino = ino, !.i_next = next]

\* The end of get_inode, w being where its loop stopped.
inode_insert(w, ino, heap, table) ==
  IF w.found
  THEN [heap |-> heap, table |-> table, ret |-> w.entry, created |-> 0]
  ELSE [heap |-> IF w.entry_p.kind = "next"
                 THEN [Append(heap, new_inode(ino, w.entry))
                         EXCEPT ![w.entry_p.at].i_next = Len(heap) + 1]
                 ELSE Append(heap, new_inode(ino, w.entry)),
        table |-> IF w.entry_p.kind = "bucket"
                  THEN [table EXCEPT ![w.entry_p.at] = Len(heap) + 1]
                  ELSE table,
        ret |-> Len(heap) + 1, created |-> 1]

get_inode(ino, heap, table) ==
  inode_insert(inode_walk(heap,
                          [kind |-> "bucket", at |-> ino % INODE_TABLE_BUCKETS],
                          table[ino % INODE_TABLE_BUCKETS], ino),
               ino, heap, table)

\* get_dstream(id, vsb->v_dstream_table)->d_size: the dstream table is a
\* get-or-create table too, a dstream no extent record fed has size 0.
dstream_size(ds, id) == IF id \in DOMAIN ds THEN ds[id] ELSE u64_zero

\* The link and child count checks of check_inode_stats.
check_counts_nlink_only(inode) ==
  IF inode.i_nlink # inode.i_link_count THEN "wrong link count." ELSE NoError

check_counts(inode) ==
  IF filetype_of(inode.i_mode) = S_IFDIR
  THEN IF inode.i_link_count # 1 THEN "directory has hard links."
       ELSE IF i_nchildren(inode) # inode.i_child_count
       THEN "wrong directory child count."
       ELSE NoError
  ELSE IF inode.i_nlink # inode.i_link_count THEN "wrong link count."
       ELSE NoError

\* The size check of check_inode_stats.
check_size_by_ino(inode, ds) ==
  IF u64_lt(dstream_size(ds, inode.i_ino), inode.i_size)
  THEN "some extents are missing."
  ELSE NoError

check_size(inode, ds) ==
  IF u64_lt(dstream_size(ds, inode.i_private_id), inode.i_size)
  THEN "some extents are missing."
  ELSE NoError

first_report(a, b) == IF a # NoError THEN a ELSE b

\* check_inode_stats(inode): the message of its first report, or NoError.
check_inode_stats(inode, ds, live) ==
  IF ~live THEN "assertion failed: vsb->v_dstream_table"
  ELSE first_report(check_counts(inode), check_size(inode, ds))

\* The inner loop of free_inode_table: check, read i_next, free. A report
\* ends the run with the rest of the table neither checked nor freed.
RECURSIVE free_inode_chain(_, _, _, _)
free_inode_checked(heap, current, ds, live, msg) ==
  IF msg # NoError
  THEN [heap |-> [heap EXCEPT ![current].n_fin = @ + 1], fatal |-> msg]
  ELSE free_inode_chain([heap EXCEPT ![current].n_fin = @ + 1,
                                     ![current].n_free = @ + 1],
                        heap[current].i_next, ds, live)

free_inode_chain(heap, current, ds, live) ==
  IF current = NULL THEN [heap |-> heap, fatal |-> NoError]
  ELSE free_inode_checked(heap, current, ds, live,
                          check_inode_stats(heap[current], ds, live))

RECURSIVE free_inode_buckets_from(_, _, _, _, _, _)
free_inode_bucket_done(r, table, i, visited, ds, live) ==
  IF r.fatal # NoError
  THEN [heap |-> r.heap, visited |-> visited \cup {i}, fatal |-> r.fatal]
  ELSE free_inode_buckets_from(r.heap, table, i + 1, visited \cup {i}, ds, live)

free_inode_buckets_from(heap, table, i, visited, ds, live) ==
  IF i >= INODE_TABLE_BUCKETS
  THEN [heap |-> heap, visited |-> visited, fatal |-> NoError]
  ELSE free_inode_bucket_done(free_inode_chain(heap, table[i], ds, live),
                              table, i, visited, ds, live)

free_inode_table(heap, table, ds, live) ==
  free_inode_buckets_from(heap, table, 0, {}, ds, live)

\* The case labels of the three virtual directories in check_inode_ids.
is_virtual_dir_no_snap(ino) ==
  ino \in {APFS_ROOT_DIR_INO_NUM, APFS_PRIV_DIR_INO_NUM}

is_virtual_dir(ino) ==
  ino \in {APFS_ROOT_DIR_INO_NUM, APFS_PRIV_DIR_INO_NUM, APFS_SNAP_DIR_INO_NUM}

\* check_inode_ids(ino, parent_ino): the message of its first report, or NoError.
check_inode_ids(ino, parent_ino) ==
  IF ino < APFS_MIN_USER_INO_NUM
  THEN IF ino \in {APFS_INVALID_INO_NUM, APFS_ROOT_DIR_PARENT}
       THEN "invalid inode number."
       ELSE IF is_virtual_dir(ino)
       THEN IF parent_ino # APFS_ROOT_DIR_PARENT THEN "bad parent id"
            ELSE NoError
       ELSE "reserved inode number."
  ELSE IF parent_ino < APFS_MIN_USER_INO_NUM
  THEN IF parent_ino = APFS_INVALID_INO_NUM
       THEN "invalid parent inode number."
       ELSE IF parent_ino = APFS_ROOT_DIR_PARENT
       THEN "root parent id for nonroot."
       ELSE IF is_virtual_dir(parent_ino) THEN NoError
       ELSE "reserved parent inode number."
  ELSE NoError

\* ------------------------------------------------- inode.c: extended fields

\* An xfield blob of len bytes: the header's two fields, the descriptors
\* (x_type, x_size), and a payload of plen bytes whose non-zero bytes (each
\* of value 1) sit at the offsets nz.
ROUND_UP(x, y) == ((x + y - 1) \div y) * y

\* An int handed to a size_t parameter or compared with a sizeof: a negative
\* one wraps to the top of the range. Every length here is below 2^16, so
\* any range above that orders the values as size_t does: 2^30 is used.
to_size_t(x) == IF x < 0 THEN x + 2 ^ 30 ELSE x

byte_at(blob, off) == IF off \in blob.nz THEN 1 ELSE 0

\* le64_to_cpu of the eight bytes at off.
le64_to_cpu(blob, off) == [k \in 1 .. 8 |-> byte_at(blob, off + k - 1)]

\* The non-zero bytes from off on, inside the record and at most n of them.
RECURSIVE scan_record(_, _, _, _)
scan_record(blob, off, k, n) ==
  IF k >= n \/ off + k >= blob.plen THEN k
  ELSE IF byte_at(blob, off + k) = 0 THEN k
  ELSE scan_record(blob, off, k + 1, n)

\* strnlen(xval, n) with xval at offset off of the payload. A scan that is
\* neither stopped by n nor by a zero byte inside the record runs on into the
\* memory past the record: oob is the number of non-zero bytes it finds there
\* (-1: it faults first).
strnlen_from(k, blob, off, n, oob) ==
  IF k >= n \/ off + k < blob.plen
  THEN [n |-> k, oob_read |-> FALSE, crash |-> FALSE]
  ELSE IF oob < 0 THEN [n |-> k, oob_read |-> TRUE, crash |-> TRUE]
  ELSE [n |-> IF k + oob > n THEN n ELSE k + oob, oob_read |-> TRUE,
        crash |-> FALSE]

strnlen(blob, off, n, oob) ==
  strnlen_from(scan_record(blob, off, 0, n), blob, off, n, oob)

\* xval[k] for a k that strnlen has scanned up to: past the record it is the
\* byte the scan stopped at.
byte_after_scan(blob, off, k, sl, n) ==
  IF off + k < blob.plen THEN byte_at(blob, off + k)
  ELSE IF sl.n < n THEN 0 ELSE 1

\* case APFS_INO_EXT_TYPE_NAME: xlen = strnlen(xval, len - 1) + 1, then the
\* look at xval[xlen - 1]. sl is what strnlen(xval, n) made.
name_xfield_check(sl, blob, off, n) ==
  IF sl.crash
  THEN [fatal |-> "SIGSEGV", xlen |-> sl.n + 1, oob_read |-> TRUE]
  ELSE [fatal |-> IF byte_after_scan(blob, off, sl.n, sl, n) # 0
                  THEN "name with no null termination" ELSE NoError,
        xlen |-> sl.n + 1,
        oob_read |-> sl.oob_read \/ off + sl.n >= blob.plen]

name_xfield_len(blob, len, off, oob) ==
  name_xfield_check(strnlen(blob, off, to_size_t(len - 1), oob), blob, off,
                    to_size_t(len - 1))

\* read_dstream_xfield(xval, len, inode)
read_dstream_xfield(blob, len, off, inode) ==
  IF to_size_t(len) < SizeofDstream
  THEN [fatal |-> "doesn't fit in inode record.", xlen |-> SizeofDstream,
        inode |-> inode, oob_read |-> FALSE]
  ELSE [fatal |-> NoError, xlen |-> SizeofDstream,
        inode |-> [inode EXCEPT !.i_size = le64_to_cpu(blob, off)],
        oob_read |-> off + SizeofDstream > blob.plen]

xfield_fixed(n, inode) ==
  [fatal |-> NoError, xlen |-> n, inode |-> inode, oob_read |-> FALSE]

xfield_failed(msg, inode) ==
  [fatal |-> msg, xlen |-> 0, inode |-> inode, oob_read |-> FALSE]

xfield_name(r, inode) ==
  [fatal |-> r.fatal, xlen |-> r.xlen, inode |-> inode, oob_read |-> r.oob_read]

\* The switch on xfield[i].x_type.
xfield_len(blob, x_type, len, off, inode, oob) ==
  CASE x_type = APFS_INO_EXT_TYPE_FS_UUID -> xfield_fixed(16, inode)
    [] x_type \in {APFS_INO_EXT_TYPE_SNAP_XID,
                   APFS_INO_EXT_TYPE_DELTA_TREE_OID,
                   APFS_INO_EXT_TYPE_PREV_FSIZE,
                   APFS_INO_EXT_TYPE_SPARSE_BYTES} -> xfield_fixed(8, inode)
    [] x_type \in {APFS_INO_EXT_TYPE_DOCUMENT_ID,
                   APFS_INO_EXT_TYPE_FINDER_INFO,
                   APFS_INO_EXT_TYPE_RDEV} -> xfield_fixed(4, inode)
    [] x_type = APFS_INO_EXT_TYPE_NAME ->
         xfield_name(name_xfield_len(blob, len, off, oob), inode)
    [] x_type = APFS_INO_EXT_TYPE_DSTREAM ->
         read_dstream_xfield(blob, len, off, inode)
    [] x_type = APFS_INO_EXT_TYPE_DIR_STATS_KEY ->
         xfield_fixed(SizeofDirStatsVal, inode)
    [] x_type \in {APFS_INO_EXT_TYPE_RESERVED_6,
                   APFS_INO_EXT_TYPE_RESERVED_9,
                   APFS_INO_EXT_TYPE_RESERVED_12} ->
         xfield_failed("reserved type in use.", inode)
    [] OTHER -> xfield_failed("invalid type.", inode)

\* xpad_len = ROUND_UP(xlen, 8) - xlen
xpad_len(xlen) == ROUND_UP(xlen, 8) - xlen

\* The loop over the padding bytes.
padding_unchecked(blob, off, pad) == FALSE

nonzero_padding(blob, off, pad) ==
  \E j \in 0 .. pad - 1 : byte_at(blob, off + j) # 0

\* if (len) report(...): the check after the loop.
xfields_end_slack(len) ==
  IF len < 0 THEN "length of xfields does not add up." ELSE NoError

xfields_end(len) ==
  IF len # 0 THEN "length of xfields does not add up." ELSE NoError

\* parse_inode_xfields left by a report, or by its return.
xfields_stop(msg, len, inode, oob_read) ==
  [fatal |-> msg, len |-> len, inode |-> inode, oob_read |-> oob_read]

\* The loop of parse_inode_xfields from descriptor i on (the first is 1), len
\* bytes of payload left, xval at offset off of the payload.
RECURSIVE xfields_loop(_, _, _, _, _, _, _)

\* The rest of one round once the padding length is known: len -= xlen, the
\* padding, the fit, the padding bytes, and the next round.
xfields_pad(blob, i, len, off, st, pad, oob_read, oob) ==
  IF len - st.xlen - pad < 0
  THEN xfields_stop("does not fit in record value.", len - st.xlen - pad,
                    st.inode, oob_read)
  ELSE IF nonzero_padding(blob, off + st.xlen, pad)
  THEN xfields_stop("non-zero padding.", len - st.xlen - pad, st.inode,
                    oob_read \/ (pad > 0 /\ off + st.xlen + pad > blob.plen))
  ELSE xfields_loop(blob, i + 1, len - st.xlen - pad, off + st.xlen + pad,
                    st.inode,
                    oob_read \/ (pad > 0 /\ off + st.xlen + pad > blob.plen),
                    oob)

\* One round after the switch, st being what the switch made of the type.
xfields_step(blob, i, len, off, xf, st, oob_read, oob) ==
  IF st.fatal # NoError
  THEN xfields_stop(st.fatal, len, st.inode, oob_read \/ st.oob_read)
  ELSE IF st.xlen # xf.x_size
  THEN xfields_stop("wrong size", len, st.inode, oob_read \/ st.oob_read)
  ELSE xfields_pad(blob, i, len, off, st, xpad_len(st.xlen),
                   oob_read \/ st.oob_read, oob)

xfields_loop(blob, i, len, off, inode, oob_read, oob) ==
  IF i > blob.xf_num_exts
  THEN xfields_stop(NoError, len, inode, oob_read)
  ELSE xfields_step(blob, i, len, off, blob.xfields[i],
                    xfield_len(blob, blob.xfields[i].x_type, len, off, inode,
                               oob),
                    oob_read, oob)

\* The end of parse_inode_xfields: r is what the loop left.
xfields_finish(r) ==
  IF r.fatal # NoError THEN r ELSE [r EXCEPT !.fatal = xfields_end(r.len)]

\* parse_inode_xfields(xblob, len, inode)
parse_inode_xfields(xblob, len, inode, oob) ==
  IF len = 0 THEN xfields_stop(NoError, len, inode, FALSE)
  ELSE IF len - SizeofXfBlob < 0
  THEN xfields_stop("no room for extended fields.", len, inode, FALSE)
  ELSE IF len - SizeofXfBlob - xblob.xf_num_exts * SizeofXField < 0
  THEN xfields_stop("number of xfields cannot fit.", len, inode, FALSE)
  ELSE IF xblob.xf_used_data
            # len - SizeofXfBlob - xblob.xf_num_exts * SizeofXField
  THEN xfields_stop("value size incompatible with xfields.", len, inode, FALSE)
  ELSE xfields_finish(
         xfields_loop(xblob, 1,
                      len - SizeofXfBlob - xblob.xf_num_exts * SizeofXField,
                      0, inode, FALSE, oob))

\* ------------------------------------------------ inode.c: the inode record

\* inode->i_seen = true
mark_seen_not(inode) == inode

mark_seen(inode) == [inode EXCEPT !.i_seen = TRUE]

\* The switch on the file type: the tally it increments, or the report.
count_filetype(cnt, filetype, ino) ==
  CASE filetype = S_IFREG -> [fatal |-> NoError, counts |-> [cnt EXCEPT !.file = @ + 1]]
    [] filetype = S_IFDIR ->
         [fatal |-> NoError,
          counts |-> IF ino >= APFS_MIN_USER_INO_NUM
                     THEN [cnt EXCEPT !.dir = @ + 1] ELSE cnt]
    [] filetype = S_IFLNK ->
         [fatal |-> NoError, counts |-> [cnt EXCEPT !.symlink = @ + 1]]
    [] filetype \in {S_IFSOCK, S_IFBLK, S_IFCHR, S_IFIFO} ->
         [fatal |-> NoError, counts |-> [cnt EXCEPT !.special = @ + 1]]
    [] OTHER -> [fatal |-> "invalid file mode.", counts |-> cnt]

\* What parse_inode_record leaves: g is the inode table (heap, table) with the
\* inode of the record (ret), msg its first report (NoError: it returned).
record_out(g, cnt, msg) ==
  [heap |-> g.heap, table |-> g.table, counts |-> cnt, fatal |-> msg,
   ret |-> g.ret, created |-> g.created]

\* parse_inode_xfields has run on the inode: x is what it left.
record_xfields(g, cnt, x) ==
  record_out([g EXCEPT !.heap = [g.heap EXCEPT ![g.ret] = x.inode]], cnt,
             x.fatal)

\* The two padding fields, then the xfields.
record_pad(g, cnt, val, len, blob, oob) ==
  IF val.pad1 # 0 \/ val.pad2 # 0
  THEN record_out(g, cnt, "padding should be zeroes.")
  ELSE record_xfields(g, cnt,
                      parse_inode_xfields(blob, len - SizeofInodeVal,
                                          g.heap[g.ret], oob))

\* The switch on the file type has run (tally), then inode->i_nlink.
record_nlink(g, tally, val, len, blob, oob) ==
  IF tally.fatal # NoError THEN record_out(g, tally.counts, tally.fatal)
  ELSE record_pad([g EXCEPT !.heap = [g.heap EXCEPT ![g.ret].i_nlink = val.nlink]],
                  tally.counts, val, len, blob, oob)

\* check_inode_ids has run (idmsg); the mode against the dentry's type bits,
\* inode->i_mode, and the switch on the file type.
record_mode(g, idmsg, cnt, val, len, blob, oob) ==
  IF idmsg # NoError THEN record_out(g, cnt, idmsg)
  ELSE IF g.heap[g.ret].i_mode # 0
          /\ g.heap[g.ret].i_mode # filetype_of(val.mode)
  THEN record_out(g, cnt, "file mode doesn't match dentry type.")
  ELSE record_nlink([g EXCEPT !.heap = [g.heap EXCEPT ![g.ret].i_mode = val.mode]],
                    count_filetype(cnt, filetype_of(val.mode),
                                   g.heap[g.ret].i_ino),
                    val, len, blob, oob)

\* inode->i_seen = true and inode->i_private_id are set (g), then
\* check_inode_ids(inode->i_ino, val->parent_id).
record_ids(g, cnt, val, len, blob, oob) ==
  record_mode(g, check_inode_ids(g.heap[g.ret].i_ino, val.parent_id), cnt, val,
              len, blob, oob)

\* get_inode has returned (g): the i_seen guard.
record_seen(g, cnt, val, len, blob, oob) ==
  IF g.heap[g.ret].i_seen
  THEN record_out(g, cnt, "inode numbers are repeated.")
  ELSE record_ids([g EXCEPT !.heap = [g.heap EXCEPT ![g.ret] =
                     [mark_seen(@) EXCEPT !.i_private_id = val.private_id]]],
                  cnt, val, len, blob, oob)

\* parse_inode_record(key, val, len): ino is cat_cnid(&key->hdr), blob the
\* bytes of val->xfields.
parse_inode_record(ino, val, len, blob, heap, table, cnt, oob) ==
  IF to_size_t(len) < SizeofInodeVal
  THEN record_out([heap |-> heap, table |-> table, ret |-> NULL, created |-> 0],
                  cnt, "value is too small.")
  ELSE record_seen(get_inode(ino, heap, table), cnt, val, len, blob, oob)

\* ------------------------------------------------------------------ state

NoInput == [kind |-> "none"]
NoCall == [op |-> "none", id |-> 0, ret |-> NULL, created |-> 0, known |-> FALSE]
ZeroCounts == [file |-> 0, dir |-> 0, symlink |-> 0, special |-> 0]
EmptyMap == [x \in {} |-> NULL]

\* The state after the tables are allocated, before any record is parsed.
Start ==
  /\ cnids = << >>
  /\ cnid_table = alloc_htable
  /\ cnid_state = "live"
  /\ cnid_visited = {}
  /\ inodes = << >>
  /\ inode_table = alloc_inode_table
  /\ inode_state = "live"
  /\ inode_visited = {}
  /\ dstreams = EmptyMap
  /\ dstream_live = TRUE
  /\ counts = ZeroCounts
  /\ pc = "run"
  /\ fatal = NoError
  /\ call = NoCall
  /\ first_cnid = EmptyMap
  /\ first_ino = EmptyMap
  /\ recs = EmptyMap

Remember(f, k, v) == IF k \in DOMAIN f THEN f ELSE f @@ (k :> v)
Record(f, k, v) ==
  IF k \in DOMAIN f THEN [f EXCEPT ![k] = Append(@, v)] ELSE f @@ (k :> <<v>>)

\* ---------------------------------------------------------------- actions

\* get_listed_cnid(id); r is what get_htable_entry returned.
GetListedCnidDone(r, id, max) ==
  /\ Len(r.heap) <= max
  /\ cnids' = r.heap
  /\ cnid_table' = r.table
  /\ call' = [op |-> "get_listed_cnid", id |-> id, ret |-> r.ret,
              created |-> Len(r.heap) - Len(cnids),
              known |-> id \in DOMAIN first_cnid]
  /\ first_cnid' = Remember(first_cnid, id, r.ret)

GetListedCnid(id, max) ==
  /\ pc = "run" /\ cnid_state = "live"
  /\ GetListedCnidDone(get_htable_entry(id, zero_listed_cnid, cnids, cnid_table),
                       id, max)
  /\ UNCHANGED <<cnid_state, cnid_visited, inodevars, dsvars, pc, fatal,
                 purevars>>

\* free_cnid_table(vsb->v_cnid_table); r is what free_htable left.
FreeCnidTableDone(r) ==
  /\ cnids' = r.heap
  /\ cnid_visited' = r.visited

FreeCnidTable ==
  /\ pc = "run" /\ cnid_state = "live"
  /\ \E junk \in 0 .. Len(cnids) :
       FreeCnidTableDone(free_htable(cnids, cnid_table, junk))
  /\ cnid_state' = "freed"
  /\ UNCHANGED <<cnid_table, first_cnid, inodevars, dsvars, pc, fatal, call,
                 purevars>>

\* get_inode(ino, vsb->v_inode_table) alone; r is what it returned.
GetInodeDone(r, ino, max) ==
  /\ Len(r.heap) <= max
  /\ inodes' = r.heap
  /\ inode_table' = r.table
  /\ call' = [op |-> "get_inode", id |-> ino, ret |-> r.ret,
              created |-> Len(r.heap) - Len(inodes),
              known |-> ino \in DOMAIN first_ino]
  /\ first_ino' = Remember(first_ino, ino, r.ret)

GetInode(ino, max) ==
  /\ pc = "run" /\ inode_state = "live"
  /\ GetInodeDone(get_inode(ino, inodes, inode_table), ino, max)
  /\ UNCHANGED <<tablevars, inode_state, inode_visited, recs, counts, dsvars,
                 pc, fatal, purevars>>

\* What the walker notes on the inode it referred to.
walker_note(old, what) ==
  CASE what = "link" -> [old EXCEPT !.i_link_count = @ + 1]
    [] what = "child" -> [old EXCEPT !.i_child_count = @ + 1]
    [] what = "dir" -> [old EXCEPT !.i_mode = S_IFDIR]
    [] what = "reg" -> [old EXCEPT !.i_mode = S_IFREG]
    [] OTHER -> old

WalkerRefDone(r, ino, what, max) ==
  /\ Len(r.heap) <= max
  /\ what = "link" => r.heap[r.ret].i_link_count < MaxCount
  /\ what = "child" => r.heap[r.ret].i_child_count < MaxCount
  /\ what \in {"dir", "reg"} => r.heap[r.ret].i_mode = 0
  /\ inodes' = [r.heap EXCEPT ![r.ret] = walker_note(@, what)]
  /\ inode_table' = r.table
  /\ first_ino' = Remember(first_ino, ino, r.ret)

\* The tree walker meets a reference to ino (a dentry, its parent, an xattr):
\* get_inode(ino, vsb->v_inode_table), and what it notes on the inode.
WalkerRef(ino, what, max) ==
  /\ pc = "run" /\ inode_state = "live"
  /\ WalkerRefDone(get_inode(ino, inodes, inode_table), ino, what, max)
  /\ UNCHANGED <<tablevars, inode_state, inode_visited, recs, counts, dsvars,
                 pc, fatal, call, purevars>>

ParseInodeRecordDone(r, rec, max) ==
  /\ Len(r.heap) <= max
  /\ inodes' = r.heap
  /\ inode_table' = r.table
  /\ counts' = r.counts
  /\ fatal' = r.fatal
  /\ pc' = IF r.fatal = NoError THEN "run" ELSE "abort"
  /\ first_ino' = IF r.ret = NULL THEN first_ino
                  ELSE Remember(first_ino, rec.ino, r.ret)

\* The tree walker meets an inode record: parse_inode_record(key, val, len).
ParseInodeRecord(rec, max) ==
  /\ pc = "run" /\ inode_state = "live"
  /\ \E oob \in -1 .. MaxOob :
       ParseInodeRecordDone(
         parse_inode_record(rec.ino, rec.val, rec.len, rec.blob, inodes,
                            inode_table, counts, oob),
         rec, max)
  /\ recs' = Record(recs, rec.ino, rec)
  /\ UNCHANGED <<tablevars, inode_state, inode_visited, dsvars, call, purevars>>

\* The tree walker meets an extent of dstream id: its tracked size grows.
ExtentRecord(id, size) ==
  /\ pc = "run" /\ dstream_live
  /\ inode_state = "live"
  /\ u64_lt(dstream_size(dstreams, id), size)
  /\ dstreams' = IF id \in DOMAIN dstreams THEN [dstreams EXCEPT ![id] = size]
                 ELSE dstreams @@ (id :> size)
  /\ UNCHANGED <<tablevars, inodevars, dstream_live, pc, fatal, call, purevars>>

FreeInodeTableDone(r) ==
  /\ inodes' = r.heap
  /\ inode_visited' = r.visited
  /\ fatal' = r.fatal
  /\ pc' = IF r.fatal = NoError THEN "run" ELSE "abort"
  /\ inode_state' = IF r.fatal = NoError THEN "freed" ELSE "live"

\* free_inode_table(vsb->v_inode_table), after the walk.
FreeInodeTable ==
  /\ pc = "run" /\ inode_state = "live"
  /\ FreeInodeTableDone(free_inode_table(inodes, inode_table, dstreams,
                                         dstream_live))
  /\ UNCHANGED <<tablevars, inode_table, first_ino, recs, counts, dsvars, call,
                 purevars>>

\* The dstream table is freed after the inode table.
FreeDstreamTable ==
  /\ pc = "run" /\ dstream_live /\ inode_state = "freed"
  /\ dstream_live' = FALSE
  /\ UNCHANGED <<tablevars, inodevars, dstreams, pc, fatal, call, purevars>>

\* --------------------------------------------------- pure-function steps

\* check_inode_ids(ino, parent_ino) on the pair drawn at the start.
CheckInodeIds ==
  /\ xin.kind = "ids" /\ xout.kind = "none"
  /\ xout' = [kind |-> "ids", fatal |-> check_inode_ids(xin.ino, xin.parent_ino)]
  /\ UNCHANGED <<tablevars, inodevars, dsvars, pc, fatal, call, xin>>

xf_result(r) ==
  [kind |-> "xf", fatal |-> r.fatal, len |-> r.len, i_size |-> r.inode.i_size,
   oob_read |-> r.oob_read]

\* parse_inode_xfields(xblob, len, inode) on the blob drawn at the start, for
\* a freshly created inode.
ParseXfields ==
  /\ xin.kind = "blob" /\ xout.kind = "none"
  /\ \E oob \in -1 .. MaxOob :
       xout' = xf_result(parse_inode_xfields(xin, xin.len, new_inode(0, NULL),
                                             oob))
  /\ UNCHANGED <<tablevars, inodevars, dsvars, pc, fatal, call, xin>>

\* ------------------------------------------------------------------ inputs

CnidIds == 0 .. MaxId
TableInos ==
  {APFS_MIN_USER_INO_NUM + NBuckets * k : k \in 0 .. MaxChain}

XTypesIn == {0, APFS_INO_EXT_TYPE_SNAP_XID, APFS_INO_EXT_TYPE_DOCUMENT_ID,
             APFS_INO_EXT_TYPE_NAME, APFS_INO_EXT_TYPE_RESERVED_6,
             APFS_INO_EXT_TYPE_DSTREAM, APFS_INO_EXT_TYPE_DIR_STATS_KEY,
             APFS_INO_EXT_TYPE_FS_UUID}
XTypesAll == 0 .. 15

\* The declared sizes tried for a descriptor of type t: the one the format
\* gives the type, and a wrong one.
XSizesIn(t) ==
  CASE t = APFS_INO_EXT_TYPE_NAME -> {1, 2, 8}
    [] t = APFS_INO_EXT_TYPE_FS_UUID -> {8, 16}
    [] t = APFS_INO_EXT_TYPE_DSTREAM -> {8, 40}
    [] t = APFS_INO_EXT_TYPE_DIR_STATS_KEY -> {8, 32}
    [] t \in {APFS_INO_EXT_TYPE_RESERVED_6, APFS_INO_EXT_TYPE_RESERVED_9,
              APFS_INO_EXT_TYPE_RESERVED_12, 0, 15} -> {8}
    [] OTHER -> {4, 8}

XfDescs(types) ==
  UNION {{[x_type |-> t, x_size |-> z] : z \in XSizesIn(t)} : t \in types}

XfLists ==
  UNION {[1 .. n -> XfDescs(XTypesIn)] : n \in 0 .. MaxXf}
    \cup [1 .. 1 -> XfDescs(XTypesAll)]

PayloadLens == {0, 1, 2, 12} \cup {8 * k : k \in 1 .. MaxWords}
NzOffsets == {0, 1, 4, 12}
NzSets(plen) ==
  {z \in SUBSET (NzOffsets \cap 0 .. plen - 1) : Cardinality(z) <= MaxNonZero}
Payloads ==
  UNION {{[plen |-> p, nz |-> z] : z \in NzSets(p)} : p \in PayloadLens}

MkBlob(descs, pay, n, used, len) ==
  [kind |-> "blob", len |-> len, xf_num_exts |-> n, xf_used_data |-> used,
   xfields |-> descs, plen |-> pay.plen, nz |-> pay.nz]

BlobLen(n, plen) == SizeofXfBlob + n * SizeofXField + plen
NoPayload == [plen |-> 0, nz |-> {}]

\* No xfields at all.
NoBlob == MkBlob(<< >>, NoPayload, 0, 0, 0)

\* The lists of at most one descriptor.
XfListsShort == UNION {[1 .. n -> XfDescs(XTypesIn)] : n \in 0 .. 1}

\* The blobs parse_inode_xfields is run on.
IsXfBlob(b) ==
  \/ b = NoBlob
     \* the header declares the payload length the value has
  \/ \E d \in XfLists, p \in Payloads :
       b = MkBlob(d, p, Len(d), p.plen, BlobLen(Len(d), p.plen))
     \* the header declares another payload length than the value has
  \/ \E d \in XfListsShort, p \in Payloads :
       b = MkBlob(d, p, Len(d), p.plen + 8, BlobLen(Len(d), p.plen))
     \* the value is too short for the header, or for the descriptors it declares
  \/ \E n \in 1 .. MaxXf, l \in 1 .. SizeofXfBlob :
       b = MkBlob(<< >>, NoPayload, n, 0, l)

\* The inode records and walker observations of the inode specification.
InodeInos == {APFS_MIN_USER_INO_NUM, APFS_MIN_USER_INO_NUM + NBuckets}
Whats == {"get", "link", "child", "dir", "reg"}
PrivIn == {APFS_MIN_USER_INO_NUM, APFS_MIN_USER_INO_NUM + NBuckets}
ModesIn == {S_IFREG + 420, S_IFDIR + 493}
NlinksIn == 1 .. MaxCount

\* A dstream xfield alone, the non-zero bytes of its size field at nz.
DsBlob(nz) ==
  MkBlob(<<[x_type |-> APFS_INO_EXT_TYPE_DSTREAM, x_size |-> SizeofDstream]>>,
         [plen |-> SizeofDstream, nz |-> nz], 1, SizeofDstream,
         BlobLen(1, SizeofDstream))

\* A name xfield whose payload is empty.
NameBlob ==
  MkBlob(<<[x_type |-> APFS_INO_EXT_TYPE_NAME, x_size |-> 1]>>, NoPayload, 1, 0,
         BlobLen(1, 0))

RecBlobs == {NoBlob, DsBlob({1})}
SizesIn == {le64_to_cpu([nz |-> {1}], 0)}

MkRecord(ino, parent, priv, mode, nlink, pad, blob, len) ==
  [ino |-> ino,
   val |-> [parent_id |-> parent, private_id |-> priv, mode |-> mode,
            nlink |-> nlink, pad1 |-> 0, pad2 |-> pad],
   len |-> len, blob |-> blob]

\* Records that pass every check of parse_inode_record on their own.
RecordsGood ==
  {MkRecord(i, APFS_ROOT_DIR_INO_NUM, q, m, n, 0, b, SizeofInodeVal + b.len) :
     i \in InodeInos, q \in PrivIn, m \in ModesIn, n \in NlinksIn,
     b \in RecBlobs}

\* Records with one thing wrong (a symlink apart): the parent id, the mode,
\* the padding, the xfields, the length.
RecordsOdd ==
  UNION {{MkRecord(i, APFS_ROOT_DIR_PARENT, i, S_IFREG + 420, 1, 0, NoBlob,
                   SizeofInodeVal),
          MkRecord(i, APFS_ROOT_DIR_INO_NUM, i, 0, 1, 0, NoBlob, SizeofInodeVal),
          MkRecord(i, APFS_ROOT_DIR_INO_NUM, i, S_IFLNK + 511, 1, 0, NoBlob,
                   SizeofInodeVal),
          MkRecord(i, APFS_ROOT_DIR_INO_NUM, i, S_IFREG + 420, 1, 1, NoBlob,
                   SizeofInodeVal),
          MkRecord(i, APFS_ROOT_DIR_INO_NUM, i, S_IFREG + 420, 1, 0, NameBlob,
                   SizeofInodeVal + NameBlob.len),
          MkRecord(i, APFS_ROOT_DIR_INO_NUM, i, S_IFREG + 420, 1, 0, NoBlob,
                   SizeofInodeVal - 1)} : i \in InodeInos}

RecordsIn == RecordsGood \cup RecordsOdd

\* ---------------------------------------------------------- specifications

InitTable == Start /\ xin = NoInput /\ xout = NoInput

NextTable ==
  \/ \E id \in CnidIds : GetListedCnid(id, MaxEntries)
  \/ FreeCnidTable
  \/ \E ino \in TableInos : GetInode(ino, MaxEntries)
  \/ FreeInodeTable

SpecTable == InitTable /\ [][NextTable]_vars

InitIds ==
  /\ Start
  /\ xin \in {[kind |-> "ids", ino |-> i, parent_ino |-> p] :
                i \in 0 .. MaxIno, p \in 0 .. MaxIno}
  /\ xout = NoInput

NextIds == CheckInodeIds

SpecIds == InitIds /\ [][NextIds]_vars

InitXf == Start /\ IsXfBlob(xin) /\ xout = NoInput

NextXf == ParseXfields

SpecXf == InitXf /\ [][NextXf]_vars

InitInode == Start /\ xin = NoInput /\ xout = NoInput

NextInode ==
  \/ \E ino \in InodeInos, what \in Whats : WalkerRef(ino, what, MaxInodes)
  \/ \E rec \in RecordsIn : ParseInodeRecord(rec, MaxInodes)
  \/ \E id \in PrivIn, size \in SizesIn : ExtentRecord(id, size)
  \/ FreeInodeTable
  \/ FreeDstreamTable

SpecInode == InitInode /\ [][NextInode]_vars

Spec == SpecInode

\* ------------------------------------------------------------- the tables

\* The addresses of a bucket's chain, from its head on.
RECURSIVE CnidChain(_)
CnidChain(a) == IF a = NULL THEN << >> ELSE <<a>> \o CnidChain(cnids[a].h_next)

RECURSIVE InodeChain(_)
InodeChain(a) == IF a = NULL THEN << >> ELSE <<a>> \o InodeChain(inodes[a].i_next)

CnidChainIds(b) == [k \in DOMAIN CnidChain(cnid_table[b]) |->
                      cnids[CnidChain(cnid_table[b])[k]].h_id]
InodeChainIds(b) == [k \in DOMAIN InodeChain(inode_table[b]) |->
                       inodes[InodeChain(inode_table[b])[k]].i_ino]

Range(f) == {f[k] : k \in DOMAIN f}

\* A chain of ids is strictly ascending (so it holds no id twice) and holds
\* only ids that hash to bucket b of a table of n buckets.
ChainOK(ids, b, n) ==
  /\ \A k \in 1 .. Len(ids) - 1 : ids[k] < ids[k + 1]
  /\ \A k \in 1 .. Len(ids) : ids[k] % n = b

\* What the last get-or-create call returned, against the first call with
\* its id.
ReturnOK(first, id_at_ret) ==
  /\ call.ret = first[call.id]
  /\ id_at_ret = call.id
  /\ call.known => call.created = 0
  /\ ~call.known => call.created = 1

\* C1: after any sequence of get-or-create calls on a table (get_listed_cnid on
\* the cnid table, get_inode on the inode table) the last call returned, for an
\* id already requested, the entity the first call with that id returned and
\* created nothing, and for a new id exactly one new entity; the table holds
\* one entity per requested id; and every bucket's chain is strictly ascending
\* by id, without duplicates, holding only ids that are the bucket's index
\* modulo the bucket count.
C1_GetOrCreate ==
  /\ call.op = "get_listed_cnid" => ReturnOK(first_cnid, cnids[call.ret].h_id)
  /\ call.op = "get_inode" => ReturnOK(first_ino, inodes[call.ret].i_ino)
  /\ Len(cnids) = Cardinality(DOMAIN first_cnid)
  /\ Len(inodes) = Cardinality(DOMAIN first_ino)
  /\ \A b \in DOMAIN cnid_table :
       ChainOK(CnidChainIds(b), b, Cardinality(DOMAIN cnid_table))
  /\ \A b \in DOMAIN inode_table :
       ChainOK(InodeChainIds(b), b, Cardinality(DOMAIN inode_table))
  /\ UNION {Range(CnidChain(cnid_table[b])) : b \in DOMAIN cnid_table}
       = 1 .. Len(cnids)
  /\ UNION {Range(InodeChain(inode_table[b])) : b \in DOMAIN inode_table}
       = 1 .. Len(inodes)

\* A chain of three whose middle entity was created last.
MiddleLast(chain) ==
  Len(chain) = 3 /\ chain[2] > chain[1] /\ chain[2] > chain[3]

\* C1's case: a repeated get_listed_cnid that created nothing, with a chain of
\* three in each table that was not filled in id order.
C1_Witness ==
  /\ call.op = "get_listed_cnid" /\ call.known /\ call.created = 0
  /\ cnid_state = "live" /\ inode_state = "live"
  /\ \E b \in DOMAIN cnid_table : MiddleLast(CnidChain(cnid_table[b]))
  /\ \E b \in DOMAIN inode_table : MiddleLast(InodeChain(inode_table[b]))

\* C2: once free_htable (free_cnid_table) or free_inode_table has returned, the
\* finalizer has run exactly once on every entity created in the table and
\* every entity has been released exactly once; no entity is ever finalized or
\* released twice; and the buckets read are buckets of the allocated array.
C2_FreeTable ==
  /\ \A a \in 1 .. Len(cnids) : cnids[a].n_fin <= 1 /\ cnids[a].n_free <= 1
  /\ \A a \in 1 .. Len(inodes) : inodes[a].n_fin <= 1 /\ inodes[a].n_free <= 1
  /\ cnid_state = "freed" =>
       \A a \in 1 .. Len(cnids) : cnids[a].n_fin = 1 /\ cnids[a].n_free = 1
  /\ inode_state = "freed" =>
       \A a \in 1 .. Len(inodes) : inodes[a].n_fin = 1 /\ inodes[a].n_free = 1
  /\ cnid_visited \subseteq DOMAIN cnid_table
  /\ inode_visited \subseteq DOMAIN inode_table

\* C2's case: both tables freed, each holding a chain that was not filled in
\* id order and entities in more than one bucket.
C2_Witness ==
  /\ cnid_state = "freed" /\ inode_state = "freed"
  /\ \E b \in DOMAIN cnid_table :
       LET c == CnidChain(cnid_table[b]) IN Len(c) = 2 /\ c[1] > c[2]
  /\ \E b \in DOMAIN inode_table : MiddleLast(InodeChain(inode_table[b]))
  /\ Cardinality({b \in DOMAIN cnid_table : cnid_table[b] # NULL}) > 1

\* ------------------------------------------------------------- the id policy

SentinelInos == {APFS_INVALID_INO_NUM, APFS_ROOT_DIR_PARENT}
VirtualInos ==
  {APFS_ROOT_DIR_INO_NUM, APFS_PRIV_DIR_INO_NUM, APFS_SNAP_DIR_INO_NUM}
OrdinaryIno(i) == i >= APFS_MIN_USER_INO_NUM

\* The pairs the policy table allows.
PolicyAllows(ino, parent) ==
  \/ ino \in VirtualInos /\ parent = APFS_ROOT_DIR_PARENT
  \/ OrdinaryIno(ino) /\ (parent \in VirtualInos \/ OrdinaryIno(parent))

\* C4: check_inode_ids(ino, parent_ino) returns without a report exactly for
\* the pairs the policy table allows; a virtual ino with another parent than
\* the root's-parent sentinel is reported as "bad parent id", any other
\* non-sentinel ino below the first user ino as "reserved inode number.", and
\* for an ordinary ino a parent below the first user ino that is neither a
\* sentinel nor a virtual id as "reserved parent inode number.".
C4_IdPolicy ==
  xout.kind = "ids" =>
    /\ xout.fatal = NoError <=> PolicyAllows(xin.ino, xin.parent_ino)
    /\ xin.ino \in VirtualInos /\ xin.parent_ino # APFS_ROOT_DIR_PARENT
         => xout.fatal = "bad parent id"
    /\ ~OrdinaryIno(xin.ino) /\ xin.ino \notin SentinelInos \cup VirtualInos
         => xout.fatal = "reserved inode number."
    /\ (/\ OrdinaryIno(xin.ino) /\ ~OrdinaryIno(xin.parent_ino)
        /\ xin.parent_ino \notin SentinelInos \cup VirtualInos)
         => xout.fatal = "reserved parent inode number."

\* C4's case: the snapshot-area id under the root's-parent sentinel, accepted.
C4_Witness ==
  /\ xout.kind = "ids" /\ xout.fatal = NoError
  /\ xin.ino = APFS_SNAP_DIR_INO_NUM /\ xin.parent_ino = APFS_ROOT_DIR_PARENT

\* --------------------------------------------------------- the xfield blobs

Fixed8Types ==
  {APFS_INO_EXT_TYPE_SNAP_XID, APFS_INO_EXT_TYPE_DELTA_TREE_OID,
   APFS_INO_EXT_TYPE_PREV_FSIZE, APFS_INO_EXT_TYPE_SPARSE_BYTES}
Fixed4Types ==
  {APFS_INO_EXT_TYPE_DOCUMENT_ID, APFS_INO_EXT_TYPE_FINDER_INFO,
   APFS_INO_EXT_TYPE_RDEV}

\* The zero bytes that follow a field of x bytes up to the 8-byte boundary.
Pad8(x) == (8 - (x % 8)) % 8

\* The payload offset of field i, each field before it taken at its declared
\* size and padded.
RECURSIVE FieldOff(_, _)
FieldOff(b, i) ==
  IF i <= 1 THEN 0
  ELSE FieldOff(b, i - 1) + b.xfields[i - 1].x_size
         + Pad8(b.xfields[i - 1].x_size)

\* The offsets of the zero bytes of the payload from off on.
ZerosFrom(b, off) == {k \in 0 .. b.plen - off - 1 : (off + k) \notin b.nz}

Least(S) == CHOOSE k \in S : \A j \in S : k <= j

\* The length a field has by its type; -1 where the type gives none.
TypeLen(b, i) ==
  LET t == b.xfields[i].x_type IN
  CASE t = APFS_INO_EXT_TYPE_FS_UUID -> 16
    [] t \in Fixed8Types -> 8
    [] t \in Fixed4Types -> 4
    [] t = APFS_INO_EXT_TYPE_DSTREAM -> SizeofDstream
    [] t = APFS_INO_EXT_TYPE_DIR_STATS_KEY -> SizeofDirStatsVal
    [] t = APFS_INO_EXT_TYPE_NAME ->
         IF ZerosFrom(b, FieldOff(b, i)) = {} THEN -1
         ELSE Least(ZerosFrom(b, FieldOff(b, i))) + 1
    [] OTHER -> -1

ConsumedExactly(b) ==
  /\ Len(b.xfields) = b.xf_num_exts
  /\ b.len = SizeofXfBlob + b.xf_num_exts * SizeofXField + b.xf_used_data
  /\ \A i \in 1 .. b.xf_num_exts :
       /\ b.xfields[i].x_size = TypeLen(b, i)
       /\ \A j \in 0 .. Pad8(b.xfields[i].x_size) - 1 :
            /\ FieldOff(b, i) + b.xfields[i].x_size + j < b.xf_used_data
            /\ (FieldOff(b, i) + b.xfields[i].x_size + j) \notin b.nz
  /\ b.xf_used_data = FieldOff(b, b.xf_num_exts + 1)

\* C5: parse_inode_xfields returns without a report on a non-empty blob only
\* if the blob is consumed exactly: the residual record length is the header,
\* the declared descriptors and the declared payload byte count; every
\* descriptor's size is the length of its type; every field, the last
\* included, is followed by zero bytes up to the next 8-byte boundary; and the
\* declared payload byte count is the sum of the padded field lengths.
C5_ExactConsumption ==
  xout.kind = "xf" /\ xout.fatal = NoError /\ xin.len # 0
    => ConsumedExactly(xin)

\* C5's case: an accepted blob of two fields, a name of two bytes and a field
\* of four, each padded to eight.
C5_Witness ==
  /\ xout.kind = "xf" /\ xout.fatal = NoError
  /\ xin.xf_num_exts = 2 /\ xin.xf_used_data = 16
  /\ xin.xfields[1] = [x_type |-> APFS_INO_EXT_TYPE_NAME, x_size |-> 2]
  /\ xin.xfields[2].x_size = 4

\* A blob of two fixed-length fields of sizes 8 and 4, each descriptor right
\* for its type, that is sound but for the payload byte count it declares:
\* the count is not 16, the record value holds as many payload bytes as
\* declared, and the bytes after the second field are zero.
Sizes8And4(b) ==
  /\ b.kind = "blob" /\ b.xf_num_exts = 2 /\ Len(b.xfields) = 2
  /\ b.xfields[1].x_type \in Fixed8Types /\ b.xfields[1].x_size = 8
  /\ b.xfields[2].x_type \in Fixed4Types /\ b.xfields[2].x_size = 4
  /\ b.xf_used_data # 16
  /\ b.plen = b.xf_used_data
  /\ b.len = SizeofXfBlob + 2 * SizeofXField + b.xf_used_data
  /\ b.nz \cap (12 .. 15) = {}

\* C6 as stated: such a blob is rejected with "length of xfields does not add
\* up.", whether the declared count is larger or smaller than 16.
C6_AsStated ==
  xout.kind = "xf" /\ Sizes8And4(xin)
    => xout.fatal = "length of xfields does not add up."

\* C6: such a blob is always rejected: with "length of xfields does not add
\* up." when the declared payload byte count is larger than 16, and with
\* "does not fit in record value." when it is smaller.
C6_SizeMismatch ==
  xout.kind = "xf" /\ Sizes8And4(xin) =>
    /\ xin.xf_used_data > 16
         => xout.fatal = "length of xfields does not add up."
    /\ xin.xf_used_data < 16
         => xout.fatal = "does not fit in record value."

\* C6's case: the declared count is 24 and the blob is rejected because the
\* lengths do not add up.
C6_Witness ==
  /\ xout.kind = "xf" /\ Sizes8And4(xin) /\ xin.xf_used_data = 24
  /\ xout.fatal = "length of xfields does not add up."

\* The first field is a name and no byte of the payload is zero.
UnterminatedName(b) ==
  /\ b.kind = "blob" /\ Len(b.xfields) >= 1
  /\ b.xfields[1].x_type = APFS_INO_EXT_TYPE_NAME
  /\ ZerosFrom(b, 0) = {}

\* C10: parse_inode_xfields never reads a byte at or past the end of the
\* record value, whatever payload is left when a name descriptor is reached
\* (none included), and a name with no zero byte in the remaining payload is
\* fatal.
C10_NameInBounds ==
  xout.kind = "xf" =>
    /\ ~xout.oob_read
    /\ UnterminatedName(xin) => xout.fatal # NoError

\* ---------------------------------------------------------- the inode walk

\* The inode records the walk has handed to parse_inode_record for ino.
NRecs(ino) == IF ino \in DOMAIN recs THEN Len(recs[ino]) ELSE 0

\* parse_inode_record has just run on a record of ino whose value is long
\* enough for it to look the inode up.
RecordRead(ino) ==
  /\ ino \in DOMAIN recs'
  /\ Len(recs'[ino]) = NRecs(ino) + 1
  /\ recs'[ino][Len(recs'[ino])].len >= SizeofInodeVal

\* C3: whatever walker references and inode records came before, an inode
\* record that parse_inode_record reads leaves the entity of its ino marked
\* seen; if an earlier record carried the same ino, the record is fatal with
\* "inode numbers are repeated."; if none did, it is not rejected as repeated,
\* and the entity, if a walker reference has created it already, is not marked
\* seen before the record.
C3_SeenGuard ==
  [][\A ino \in InodeInos :
       /\ (NRecs(ino) = 0 /\ ino \in DOMAIN first_ino)
            => ~inodes[first_ino[ino]].i_seen
       /\ RecordRead(ino) =>
            /\ ino \in DOMAIN first_ino'
            /\ inodes'[first_ino'[ino]].i_seen
            /\ NRecs(ino) >= 1
                 => fatal' = "inode numbers are repeated." /\ pc' = "abort"
            /\ NRecs(ino) = 0 => fatal' # "inode numbers are repeated."]_vars

\* C3's case: the second record of an ino is rejected as repeated, the first
\* having been accepted for an entity the walker has a link to.
C3_Witness ==
  /\ fatal = "inode numbers are repeated."
  /\ \E ino \in InodeInos :
       /\ NRecs(ino) = 2
       /\ inodes[first_ino[ino]].i_seen
       /\ inodes[first_ino[ino]].i_link_count > 0

CountMessages ==
  {"directory has hard links.", "wrong directory child count.",
   "wrong link count."}

\* What the count checks owe an inode, from the mode type it has at teardown.
CountVerdict(inode) ==
  IF filetype_of(inode.i_mode) = S_IFDIR
  THEN IF inode.i_link_count # 1 THEN "directory has hard links."
       ELSE IF i_nchildren(inode) # inode.i_child_count
       THEN "wrong directory child count."
       ELSE NoError
  ELSE IF inode.i_nlink # inode.i_link_count THEN "wrong link count."
       ELSE NoError

\* Teardown has checked and released the inode at a.
Released(a) == inodes[a].n_free = 1
\* Teardown has checked the inode at a and stopped on it.
Stopped(a) == inodes[a].n_fin = 1 /\ inodes[a].n_free = 0

\* C7: no count message is reported before teardown has begun, so
\* parse_inode_record reports none; every inode teardown has released has
\* passed the count checks with the walker's final values (a directory has
\* link count 1 and as many children as declared, any other inode as many
\* links as declared); an inode that fails them stops teardown with the
\* message of its first failing check; and teardown completes only when it has
\* released every inode.
C7_DeferredCounts ==
  /\ fatal \in CountMessages => inode_visited # {}
  /\ \A a \in 1 .. Len(inodes) :
       /\ Released(a) => CountVerdict(inodes[a]) = NoError
       /\ Stopped(a) =>
            /\ pc = "abort"
            /\ CountVerdict(inodes[a]) # NoError
                 => fatal = CountVerdict(inodes[a])
            /\ CountVerdict(inodes[a]) = NoError => fatal \notin CountMessages
  /\ inode_state = "freed" => \A a \in 1 .. Len(inodes) : Released(a)

\* C7's case: teardown has released one inode and stopped on a directory with
\* one link whose declared child count is not the observed one.
C7_Witness ==
  /\ fatal = "wrong directory child count."
  /\ \E a, b \in 1 .. Len(inodes) :
       /\ Released(a)
       /\ Stopped(b) /\ inodes[b].i_seen /\ inodes[b].i_link_count = 1
       /\ i_nchildren(inodes[b]) # inodes[b].i_child_count

\* The size the dstream xfield of a blob carries, zero when it has none.
DstreamFields(b) ==
  {i \in 1 .. Len(b.xfields) : b.xfields[i].x_type = APFS_INO_EXT_TYPE_DSTREAM}

DeclaredSize(b) ==
  IF DstreamFields(b) = {} THEN u64_zero
  ELSE LET i == CHOOSE i \in DstreamFields(b) : \A j \in DstreamFields(b) : j <= i
       IN [k \in 1 .. 8 |-> IF (FieldOff(b, i) + k - 1) \in b.nz THEN 1 ELSE 0]

\* The tracked size of the dstream the inode at a names by its private id.
TrackedSize(a) ==
  IF inodes[a].i_private_id \in DOMAIN dstreams
  THEN dstreams[inodes[a].i_private_id] ELSE u64_zero

\* C8: while the run goes on, every inode whose record was accepted has the
\* private id of that record and the size its dstream xfield carries (zero
\* when it has none); every inode teardown has released has a dstream, looked
\* up by the stored private id, whose tracked size is not smaller than the
\* inode's size; and an inode that passes the count checks stops teardown
\* with "some extents are missing." exactly when that tracked size is smaller.
C8_DeclaredSize ==
  /\ pc = "run" =>
       \A a \in 1 .. Len(inodes) :
         inodes[a].i_seen =>
           /\ inodes[a].i_size = DeclaredSize(recs[inodes[a].i_ino][1].blob)
           /\ inodes[a].i_private_id = recs[inodes[a].i_ino][1].val.private_id
  /\ fatal = "some extents are missing." => \E a \in 1 .. Len(inodes) : Stopped(a)
  /\ \A a \in 1 .. Len(inodes) :
       /\ Released(a) => ~u64_lt(TrackedSize(a), inodes[a].i_size)
       /\ (Stopped(a) /\ CountVerdict(inodes[a]) = NoError) =>
            /\ fatal = "some extents are missing."
            /\ u64_lt(TrackedSize(a), inodes[a].i_size)

\* C8's case: teardown has released an inode whose dstream, named by a
\* private id that is not its ino, has the size its record declares, and has
\* stopped on an inode whose dstream is smaller than declared.
C8_Witness ==
  /\ fatal = "some extents are missing."
  /\ \E a, b \in 1 .. Len(inodes) :
       /\ Released(a) /\ inodes[a].i_size # u64_zero
       /\ inodes[a].i_private_id # inodes[a].i_ino
       /\ Stopped(b) /\ u64_lt(TrackedSize(b), inodes[b].i_size)

\* C9: when teardown completes without a report, every inode in the table was
\* the subject of exactly one inode record.
C9_EveryInodeHasRecord ==
  inode_state = "freed" =>
    \A a \in 1 .. Len(inodes) : NRecs(inodes[a].i_ino) = 1

====
